---- MODULE Spec2Model ----
(***************************************************************************)
(* A model of buraki.core: the specification combinators of                *)
(* buraki/core/common.py and the Post entity and its three leaf            *)
(* specifications of buraki/core/blog.py.                                  *)
(*                                                                         *)
(* Python objects live in heaps and are named by their index: `specs` is   *)
(* the heap of specification objects, `lists` the heap of list objects     *)
(* (a Post keeps a reference to a list, not a value), `objects` the heap   *)
(* of Post objects and of other values a Post can be compared with.        *)
(*                                                                         *)
(* The outcome of a call that returns a bool is "True" or "False"; a call  *)
(* that raises has the outcome "TypeError".                                *)
(***************************************************************************)
EXTENDS Integers, Sequences, FiniteSets, TLC

VARIABLES
    specs,       \* heap of specification objects (common.py, blog.py)
    lists,       \* heap of list objects holding tags
    objects,     \* heap of Post objects and of non-Post values
    candidate,   \* the Post handed to is_satisfied_by (a Post object's slots)
    callers,     \* each concurrent caller's evaluation: status, call stack, ...
    filters,     \* what the last get_filters call returned
    satisfied,   \* the outcome of the last is_satisfied_by call, or NotCalled
    ctor_tags,   \* the tags the Post of SpecPost was constructed with
    read,        \* what the last read of post.tags returned
    equal        \* the last comparison self == other and its result

vars == <<specs, lists, objects, candidate, callers, filters, satisfied, ctor_tags, read, equal>>

(***************************************************************************)
(* Bounds of the model.                                                    *)
(***************************************************************************)
MaxNodes == 3        \* specification objects on the heap of Spec
MaxInstant == 2      \* instants a datetime can denote: 1..MaxInstant
MaxRefTags == 2      \* reference tags handed to PostTagsSpecification
MaxTags == 2         \* tags in a list object
MaxLists == 3        \* list objects on the heap of SpecPost
MaxObjects == 3      \* objects on the heap of SpecEq
NumCallers == 2      \* concurrent callers of SpecEval

\* The outcome of a call not made yet.
NotCalled == "NotCalled"

\* A returned tuple or list v is kept as <<v>>; <<>> says nothing was returned.
NoReturn == <<>>

Returned(v) == <<v>>

\* No candidate: None.
NoPost == [class |-> "NoneType"]

(***************************************************************************)
(* Values.                                                                 *)
(***************************************************************************)
\* enum.StrEnum Category: the members IT, BUSINESS, SPORT, named by member.
Category == {"IT", "BUSINESS", "SPORT"}

TagNames == {"go", "rust"}

Instants == 1 .. MaxInstant

\* datetime.datetime: the instant it denotes, and whether it carries a tzinfo
\* (aware) or not (naive).
DateTimes == [instant : Instants, aware : BOOLEAN]

UUIDs == {"uuid1", "uuid2"}

SeqsUpTo(S, n) == UNION {[1 .. k -> S] : k \in 0 .. n}

Range(s) == {s[i] : i \in DOMAIN s}

\* Python values keep their type when they sit in a tuple.
PyCategory(c) == [pytype |-> "Category", value |-> c]
PyDateTime(d) == [pytype |-> "datetime", value |-> d]
PyStr(s) == [pytype |-> "str", value |-> s]
PyTuple(t) == [pytype |-> "tuple", value |-> t]

\* datetime.__le__: ordering a naive and an aware datetime raises TypeError.
datetime_le(a, b) ==
    IF a.aware # b.aware THEN "TypeError"
    ELSE IF a.instant <= b.instant THEN "True" ELSE "False"

\* not outcome; a raised error is not a value and propagates.
py_not(outcome) ==
    CASE outcome = "True" -> "False"
      [] outcome = "False" -> "True"
      [] OTHER -> outcome

(***************************************************************************)
(* Post (blog.py).                                                         *)
(***************************************************************************)
\* Post.__init__: every argument is stored as given; tags is a reference
\* to the caller's list object.
Post(post_id, category, published_at, title, content, tags, likes, dislikes) ==
    [class |-> "Post", post_id |-> post_id, category |-> category,
     published_at |-> published_at, title |-> title, content |-> content,
     tags |-> tags, likes |-> likes, dislikes |-> dislikes]

\* A mutant of Post_eq: equality of every slot, as a dataclass would compare.
Post_eq_by_slots(heap, self, other) ==
    \/ self = other
    \/ /\ heap[other].class = "Post"
       /\ heap[self] = heap[other]

\* Post.__eq__(self, other), self and other being references into the heap
\* of objects: self is other or (isinstance(other, Post) and
\* self._post_id == other._post_id).
Post_eq(heap, self, other) ==
    \/ self = other
    \/ /\ heap[other].class = "Post"
       /\ heap[self].post_id = heap[other].post_id

\* A mutant of list_copy: the elements are moved out of the source list.
list_copy_draining(heap, ref) ==
    [value |-> heap[ref], heap |-> [heap EXCEPT ![ref] = <<>>]]

\* list.copy(): a new list object with the same elements; the heap of
\* existing list objects is left as it is.
list_copy(heap, ref) == [value |-> heap[ref], heap |-> heap]

\* Post.tags (property): self._tags.copy().
Post_tags(heap, post) == list_copy(heap, post.tags)

\* x in list: some element equals x.
list_contains(list, x) == \E i \in DOMAIN list : list[i] = x

(***************************************************************************)
(* Leaf specifications (blog.py).                                          *)
(***************************************************************************)
PostCategorySpecification(reference_category) ==
    [kind |-> "PostCategorySpecification", reference_category |-> reference_category]

PostPublishedAtSpecification(published_from, published_to) ==
    [kind |-> "PostPublishedAtSpecification",
     published_from |-> published_from, published_to |-> published_to]

\* *reference_tags: the positional arguments as one tuple.
PostTagsSpecification(reference_tags) ==
    [kind |-> "PostTagsSpecification", reference_tags |-> reference_tags]

PostCategory_get_filters(self) == <<PyCategory(self.reference_category)>>

PostPublishedAt_get_filters(self) ==
    <<PyDateTime(self.published_from), PyDateTime(self.published_to)>>

\* A mutant of PostTags_get_filters: the tuple of tags itself, the trailing
\* comma forgotten.
PostTags_get_filters_flat(self) ==
    [i \in DOMAIN self.reference_tags |-> PyStr(self.reference_tags[i])]

\* (self._reference_tags,): a tuple of one element, the tuple of tags.
PostTags_get_filters(self) ==
    <<PyTuple([i \in DOMAIN self.reference_tags |-> PyStr(self.reference_tags[i])])>>

\* The evaluation of a leaf gives an outcome and leaves a heap of lists.
Evaluated(outcome, heap) == [outcome |-> outcome, heap |-> heap]

\* A mutant of PostCategory_is_satisfied_by: != for ==.
PostCategory_is_satisfied_by_inverted(self, heap, post) ==
    [outcome |-> IF post.category # self.reference_category THEN "True" ELSE "False",
     heap |-> heap]

PostCategory_is_satisfied_by(self, heap, post) ==
    Evaluated(IF post.category = self.reference_category THEN "True" ELSE "False", heap)

\* A mutant of PostPublishedAt_is_satisfied_by: the upper bound is excluded,
\* published_from <= candidate.published_at < published_to.
PostPublishedAt_is_satisfied_by_exclusive(self, heap, post) ==
    LET first == datetime_le(self.published_from, post.published_at)
        second == datetime_le(post.published_at, self.published_to)
    IN  [outcome |-> IF first # "True" THEN first
                     ELSE IF second = "True" /\ post.published_at = self.published_to
                          THEN "False" ELSE second,
         heap |-> heap]

\* a <= b <= c is (a <= b) and (b <= c), the second evaluated only when the
\* first is true.
PostPublishedAt_is_satisfied_by(self, heap, post) ==
    LET first == datetime_le(self.published_from, post.published_at)
    IN  Evaluated(IF first = "True"
                  THEN datetime_le(post.published_at, self.published_to)
                  ELSE first,
                  heap)

\* A mutant of any_reference_tag: only the first reference tag is tried.
first_reference_tag(reference_tags, heap, post, i) ==
    IF i > Len(reference_tags) THEN [outcome |-> "False", heap |-> heap]
    ELSE [outcome |-> IF list_contains(list_copy(heap, post.tags).value, reference_tags[i])
                      THEN "True" ELSE "False",
          heap |-> heap]

\* any(reference_tag in candidate.tags for reference_tag in ...): the tags
\* from index i on, left to right, stopping at the first hit; candidate.tags
\* is read once for each reference tag tried.
RECURSIVE any_reference_tag(_, _, _, _)
any_reference_tag(reference_tags, heap, post, i) ==
    IF i > Len(reference_tags) THEN Evaluated("False", heap)
    ELSE LET tags == Post_tags(heap, post)
         IN  IF list_contains(tags.value, reference_tags[i])
             THEN Evaluated("True", tags.heap)
             ELSE any_reference_tag(reference_tags, tags.heap, post, i + 1)

PostTags_is_satisfied_by(self, heap, post) ==
    any_reference_tag(self.reference_tags, heap, post, 1)

(***************************************************************************)
(* Composite specifications (common.py).  A child is a reference into the  *)
(* heap of specification objects.                                          *)
(***************************************************************************)
AndSpecification(left_spec, right_spec) ==
    [kind |-> "AndSpecification",
     inner_left_spec |-> left_spec, inner_right_spec |-> right_spec]

OrSpecification(left_spec, right_spec) ==
    [kind |-> "OrSpecification",
     inner_left_spec |-> left_spec, inner_right_spec |-> right_spec]

NotSpecification(spec) == [kind |-> "NotSpecification", inner_spec |-> spec]

LeafKinds ==
    {"PostCategorySpecification", "PostPublishedAtSpecification", "PostTagsSpecification"}

BinaryKinds == {"AndSpecification", "OrSpecification"}

IsLeaf(node) == node.kind \in LeafKinds

\* A leaf's get_filters, by class.
Leaf_get_filters(self) ==
    CASE self.kind = "PostCategorySpecification" -> PostCategory_get_filters(self)
      [] self.kind = "PostPublishedAtSpecification" -> PostPublishedAt_get_filters(self)
      [] self.kind = "PostTagsSpecification" -> PostTags_get_filters(self)

\* A leaf's is_satisfied_by, by class: the outcome and the heap of lists it
\* leaves.
Leaf_is_satisfied_by(self, heap, post) ==
    CASE self.kind = "PostCategorySpecification" -> PostCategory_is_satisfied_by(self, heap, post)
      [] self.kind = "PostPublishedAtSpecification" -> PostPublishedAt_is_satisfied_by(self, heap, post)
      [] self.kind = "PostTagsSpecification" -> PostTags_is_satisfied_by(self, heap, post)

\* A mutant of And_get_filters: right before left.
And_get_filters_reversed(left_filters, right_filters) == right_filters \o left_filters

\* left + right on tuples.
And_get_filters(left_filters, right_filters) == left_filters \o right_filters

Or_get_filters(left_filters, right_filters) == left_filters \o right_filters

Not_get_filters(inner_filters) == inner_filters

\* get_filters of the specification object n of the heap sp.
RECURSIVE get_filters(_, _)
get_filters(sp, n) ==
    LET self == sp[n]
    IN  CASE self.kind = "AndSpecification" ->
               And_get_filters(get_filters(sp, self.inner_left_spec),
                               get_filters(sp, self.inner_right_spec))
          [] self.kind = "OrSpecification" ->
               Or_get_filters(get_filters(sp, self.inner_left_spec),
                              get_filters(sp, self.inner_right_spec))
          [] self.kind = "NotSpecification" ->
               Not_get_filters(get_filters(sp, self.inner_spec))
          [] OTHER -> Leaf_get_filters(self)

\* left and right: the left outcome when it is not true (false, or an
\* error raised on the way), otherwise the right outcome.
And_result(left, right) == IF left = "True" THEN right ELSE left

\* left or right: the left outcome when it is not false, otherwise the right.
Or_result(left, right) == IF left = "False" THEN right ELSE left

\* A mutant of Not_result: the not is forgotten.
Not_result_unnegated(inner) == inner

Not_result(inner) == py_not(inner)

\* is_satisfied_by of the specification object n of the heap sp, for one
\* caller evaluating alone.
RECURSIVE is_satisfied_by(_, _, _, _)
is_satisfied_by(sp, n, heap, post) ==
    LET self == sp[n]
    IN  CASE self.kind = "AndSpecification" ->
               And_result(is_satisfied_by(sp, self.inner_left_spec, heap, post),
                          is_satisfied_by(sp, self.inner_right_spec, heap, post))
          [] self.kind = "OrSpecification" ->
               Or_result(is_satisfied_by(sp, self.inner_left_spec, heap, post),
                         is_satisfied_by(sp, self.inner_right_spec, heap, post))
          [] self.kind = "NotSpecification" ->
               Not_result(is_satisfied_by(sp, self.inner_spec, heap, post))
          [] OTHER -> Leaf_is_satisfied_by(self, heap, post).outcome

\* A mutant of get_and_spec: the receiver is turned into the conjunction
\* in place, no new object is made.
get_and_spec_in_place(sp, self, other) ==
    [sp EXCEPT ![self] = AndSpecification(self, other)]

\* CompositeSpecification.get_and_spec / get_or_spec / get_not_spec: a new
\* object on the heap, holding references to the receiver and the argument.
get_and_spec(sp, self, other) == Append(sp, AndSpecification(self, other))

get_or_spec(sp, self, other) == Append(sp, OrSpecification(self, other))

get_not_spec(sp, self) == Append(sp, NotSpecification(self))

(***************************************************************************)
(* Spec: a caller builds specifications.  Every constructor call and every *)
(* composition call puts one new object on the heap of specifications.     *)
(***************************************************************************)
\* The list objects the candidates of Spec hold as their tags.
SampleLists == <<<<>>, <<"go">>, <<"rust", "go">>>>

\* The arguments the constructors of Spec are called with.
BuildDateTimes == {d \in DateTimes : d.instant = 1}

BuildRefTags == {<<>>, <<"go">>, <<"go", "rust">>}

\* The Posts a specification of Spec is evaluated against.
Candidates ==
    {Post("uuid1", c, d, "title", "content", l, 0, 0) :
        c \in Category, d \in DateTimes, l \in DOMAIN SampleLists}

NoCallers == [c \in 1 .. NumCallers |-> [status |-> "idle", stack |-> <<>>,
                                         ret |-> NotCalled, result |-> NotCalled,
                                         visits |-> 0]]

Callers == DOMAIN NoCallers

Init ==
    /\ specs = <<>>
    /\ lists = SampleLists
    /\ objects = <<>>
    /\ candidate = NoPost
    /\ callers = NoCallers
    /\ filters = NoReturn
    /\ satisfied = NotCalled
    /\ ctor_tags = NoReturn
    /\ read = NoReturn
    /\ equal = NoReturn

NewPostCategorySpecification ==
    /\ Len(specs) < MaxNodes
    /\ \E c \in Category : specs' = Append(specs, PostCategorySpecification(c))
    /\ UNCHANGED <<lists, objects, candidate, callers, filters, satisfied, ctor_tags, read, equal>>

NewPostPublishedAtSpecification ==
    /\ Len(specs) < MaxNodes
    /\ \E f \in BuildDateTimes, t \in BuildDateTimes :
          specs' = Append(specs, PostPublishedAtSpecification(f, t))
    /\ UNCHANGED <<lists, objects, candidate, callers, filters, satisfied, ctor_tags, read, equal>>

NewPostTagsSpecification ==
    /\ Len(specs) < MaxNodes
    /\ \E r \in BuildRefTags : specs' = Append(specs, PostTagsSpecification(r))
    /\ UNCHANGED <<lists, objects, candidate, callers, filters, satisfied, ctor_tags, read, equal>>

GetAndSpec ==
    /\ Len(specs) < MaxNodes
    /\ \E self \in DOMAIN specs, other \in DOMAIN specs :
          specs' = get_and_spec(specs, self, other)
    /\ UNCHANGED <<lists, objects, candidate, callers, filters, satisfied, ctor_tags, read, equal>>

GetOrSpec ==
    /\ Len(specs) < MaxNodes
    /\ \E self \in DOMAIN specs, other \in DOMAIN specs :
          specs' = get_or_spec(specs, self, other)
    /\ UNCHANGED <<lists, objects, candidate, callers, filters, satisfied, ctor_tags, read, equal>>

GetNotSpec ==
    /\ Len(specs) < MaxNodes
    /\ \E self \in DOMAIN specs : specs' = get_not_spec(specs, self)
    /\ UNCHANGED <<lists, objects, candidate, callers, filters, satisfied, ctor_tags, read, equal>>

Next ==
    \/ NewPostCategorySpecification
    \/ NewPostPublishedAtSpecification
    \/ NewPostTagsSpecification
    \/ GetAndSpec
    \/ GetOrSpec
    \/ GetNotSpec

Spec == Init /\ [][Next]_vars

\* is_satisfied_by of the object n of the current heap.
Sat(n, x) == is_satisfied_by(specs, n, lists, x)

(***************************************************************************)
(* C1.  AndSpecification(A, B) is satisfied by x exactly when A and B both *)
(* are, and OrSpecification(A, B) exactly when at least one of them is,    *)
(* for all specifications A and B and every candidate x.                   *)
(***************************************************************************)
C1_AndOrLaws ==
    \A n \in DOMAIN specs : \A x \in Candidates :
        /\ specs[n].kind = "AndSpecification" =>
              ((Sat(n, x) = "True") <=>
                  (/\ Sat(specs[n].inner_left_spec, x) = "True"
                   /\ Sat(specs[n].inner_right_spec, x) = "True"))
        /\ specs[n].kind = "OrSpecification" =>
              ((Sat(n, x) = "True") <=>
                  (\/ Sat(specs[n].inner_left_spec, x) = "True"
                   \/ Sat(specs[n].inner_right_spec, x) = "True"))

(***************************************************************************)
(* C2.  NotSpecification(A) is satisfied by x exactly when A is not, and   *)
(* A.get_not_spec().get_not_spec() has the outcome of A for every x.       *)
(***************************************************************************)
C2_NotIsNegation ==
    \A n \in DOMAIN specs : \A x \in Candidates :
        specs[n].kind = "NotSpecification" =>
            LET inner == specs[n].inner_spec
            IN  /\ (Sat(n, x) = "True") <=> (Sat(inner, x) = "False")
                /\ (Sat(n, x) = "False") <=> (Sat(inner, x) = "True")
                /\ specs[inner].kind = "NotSpecification" =>
                      Sat(n, x) = Sat(specs[inner].inner_spec, x)

\* A doubly negated specification whose operand some candidate satisfies
\* and some candidate does not.
C2_Witness ==
    \E n \in DOMAIN specs :
        /\ specs[n].kind = "NotSpecification"
        /\ specs[specs[n].inner_spec].kind = "NotSpecification"
        /\ \E x \in Candidates : Sat(n, x) = "True"
        /\ \E x \in Candidates : Sat(n, x) = "False"

(***************************************************************************)
(* C3.  get_filters of a composite is the concatenation of its children's  *)
(* filter lists, left before right, the receiver of get_and_spec and       *)
(* get_or_spec being the left child; NotSpecification passes its child's   *)
(* list through; so the filter list of a tree is the concatenation of its  *)
(* leaves' filter lists from left to right.                                *)
(***************************************************************************)
\* The leaves under the object n, from left to right.
RECURSIVE LeavesOf(_, _)
LeavesOf(sp, n) ==
    IF IsLeaf(sp[n]) THEN <<n>>
    ELSE IF sp[n].kind \in BinaryKinds
         THEN LeavesOf(sp, sp[n].inner_left_spec) \o LeavesOf(sp, sp[n].inner_right_spec)
         ELSE LeavesOf(sp, sp[n].inner_spec)

\* The filter lists of the leaves `leaves` of sp, one after the other.
RECURSIVE ConcatLeafFilters(_, _)
ConcatLeafFilters(sp, leaves) ==
    IF leaves = <<>> THEN <<>>
    ELSE Leaf_get_filters(sp[Head(leaves)]) \o ConcatLeafFilters(sp, Tail(leaves))

C3_FiltersOfTree ==
    \A n \in DOMAIN specs :
        get_filters(specs, n) = ConcatLeafFilters(specs, LeavesOf(specs, n))

C3_FiltersOfComposition ==
    \A self \in DOMAIN specs :
        /\ \A other \in DOMAIN specs :
              (\/ specs' = get_and_spec(specs, self, other)
               \/ specs' = get_or_spec(specs, self, other)) =>
                  get_filters(specs', Len(specs')) =
                      get_filters(specs, self) \o get_filters(specs, other)
        /\ specs' = get_not_spec(specs, self) =>
              get_filters(specs', Len(specs')) = get_filters(specs, self)

C3_FiltersConcatenate == [](C3_FiltersOfTree) /\ [][C3_FiltersOfComposition]_vars

\* A composite over two leaves whose filter lists differ, so that the order
\* of the concatenation shows.
C3_Witness ==
    \E n \in DOMAIN specs :
        /\ specs[n].kind \in BinaryKinds
        /\ get_filters(specs, specs[n].inner_left_spec) #
              get_filters(specs, specs[n].inner_right_spec)
        /\ Len(get_filters(specs, n)) >= 3

(***************************************************************************)
(* C7.  Composition never mutates a specification that exists: each call   *)
(* puts one new object on the heap, which refers to its operands, and      *)
(* every object that was there returns the same get_filters() and the same *)
(* is_satisfied_by(x) for every x as before; no object is reachable from   *)
(* its own children.                                                       *)
(***************************************************************************)
\* The objects the object n refers to.
ChildrenOf(sp, n) ==
    IF IsLeaf(sp[n]) THEN {}
    ELSE IF sp[n].kind \in BinaryKinds
         THEN {sp[n].inner_left_spec, sp[n].inner_right_spec}
         ELSE {sp[n].inner_spec}

\* The objects reachable from the set S in at most k steps.
RECURSIVE ReachableFrom(_, _, _)
ReachableFrom(sp, S, k) ==
    IF k = 0 THEN S
    ELSE ReachableFrom(sp, S \cup UNION {ChildrenOf(sp, m) : m \in S}, k - 1)

DescendantsOf(sp, n) == ReachableFrom(sp, ChildrenOf(sp, n), Len(sp))

C7_Acyclic ==
    \A n \in DOMAIN specs :
        /\ ChildrenOf(specs, n) \subseteq DOMAIN specs
        /\ n \notin DescendantsOf(specs, n)

C7_Frame ==
    /\ Len(specs') = Len(specs) + 1
    /\ SubSeq(specs', 1, Len(specs)) = specs
    /\ ChildrenOf(specs', Len(specs')) \subseteq DOMAIN specs
    /\ \A n \in DOMAIN specs :
          /\ get_filters(specs', n) = get_filters(specs, n)
          /\ \A x \in Candidates :
                is_satisfied_by(specs', n, lists', x) = is_satisfied_by(specs, n, lists, x)

C7_CompositionIsPure == [](C7_Acyclic) /\ [][C7_Frame]_vars

\* A composite built over a composite: the operand of the second call is
\* the result of the first.
C7_Witness ==
    \E n \in DOMAIN specs :
        /\ ~IsLeaf(specs[n])
        /\ \E m \in ChildrenOf(specs, n) : ~IsLeaf(specs[m])

(***************************************************************************)
(* SpecLeaf: one leaf specification and one Post, drawn from every value   *)
(* of the bounded domains; the caller asks the leaf for its filters and    *)
(* evaluates it against the Post.                                          *)
(***************************************************************************)
AllLeaves ==
    {PostCategorySpecification(c) : c \in Category}
    \cup {PostPublishedAtSpecification(f, t) : f \in DateTimes, t \in DateTimes}
    \cup {PostTagsSpecification(r) : r \in SeqsUpTo(TagNames, MaxRefTags)}

\* The slots of a Post that no leaf specification reads.
OtherSlots ==
    {[post_id |-> "uuid1", title |-> "title", content |-> "content",
      likes |-> 0, dislikes |-> 0],
     [post_id |-> "uuid2", title |-> "other title", content |-> "other content",
      likes |-> 1, dislikes |-> 1]}

InitLeaf ==
    /\ specs \in {<<leaf>> : leaf \in AllLeaves}
    /\ lists \in {<<tags>> : tags \in SeqsUpTo(TagNames, MaxTags)}
    /\ candidate \in {Post(o.post_id, c, d, o.title, o.content, 1, o.likes, o.dislikes) :
                         c \in Category, d \in DateTimes, o \in OtherSlots}
    /\ objects = <<>>
    /\ callers = NoCallers
    /\ filters = NoReturn
    /\ satisfied = NotCalled
    /\ ctor_tags = NoReturn
    /\ read = NoReturn
    /\ equal = NoReturn

CallGetFilters ==
    /\ filters = NoReturn
    /\ filters' = Returned(get_filters(specs, 1))
    /\ UNCHANGED <<specs, lists, objects, candidate, callers, satisfied, ctor_tags, read, equal>>

CallIsSatisfiedBy ==
    /\ satisfied = NotCalled
    /\ satisfied' = is_satisfied_by(specs, 1, lists, candidate)
    /\ UNCHANGED <<specs, lists, objects, candidate, callers, filters, ctor_tags, read, equal>>

NextLeaf == CallGetFilters \/ CallIsSatisfiedBy

SpecLeaf == InitLeaf /\ [][NextLeaf]_vars

\* The comparison values a leaf was constructed with, one element each, in
\* the order of the constructor's arguments.
ComparisonValues(leaf) ==
    CASE leaf.kind = "PostCategorySpecification" -> <<PyCategory(leaf.reference_category)>>
      [] leaf.kind = "PostPublishedAtSpecification" ->
           <<PyDateTime(leaf.published_from), PyDateTime(leaf.published_to)>>
      [] leaf.kind = "PostTagsSpecification" ->
           [i \in DOMAIN leaf.reference_tags |-> PyStr(leaf.reference_tags[i])]

(***************************************************************************)
(* C4 as claimed.  Every leaf's get_filters returns the comparison values  *)
(* it was constructed with, one element per value, in argument order:      *)
(* PostTagsSpecification(t1, ..., tn) yields (t1, ..., tn).                *)
(***************************************************************************)
C4_FiltersAreComparisonValues ==
    filters # NoReturn =>
        /\ Len(filters[1]) = Len(ComparisonValues(specs[1]))
        /\ filters[1] = ComparisonValues(specs[1])

(***************************************************************************)
(* C4 as amended.  PostCategorySpecification(c) yields (c,) and            *)
(* PostPublishedAtSpecification(f, t) yields (f, t); for                   *)
(* PostTagsSpecification(t1, ..., tn) get_filters returns a tuple of one   *)
(* element, and that element is the tuple (t1, ..., tn).                   *)
(***************************************************************************)
C4_FiltersOfLeaf ==
    filters # NoReturn =>
        IF specs[1].kind = "PostTagsSpecification"
        THEN /\ Len(filters[1]) = 1
             /\ filters[1][1] = PyTuple(ComparisonValues(specs[1]))
        ELSE filters[1] = ComparisonValues(specs[1])

\* get_filters has returned for a tags leaf of two different tags and for
\* a date leaf of two different bounds.
C4_Witness ==
    /\ filters # NoReturn
    /\ \/ /\ specs[1].kind = "PostTagsSpecification"
          /\ Len(specs[1].reference_tags) = 2
          /\ specs[1].reference_tags[1] # specs[1].reference_tags[2]
       \/ /\ specs[1].kind = "PostPublishedAtSpecification"
          /\ specs[1].published_from # specs[1].published_to

(***************************************************************************)
(* C10.  A PostTagsSpecification of any reference tags is satisfied by a   *)
(* post exactly when at least one reference tag is among its tags: true    *)
(* when only one of several is present, false when there are no reference  *)
(* tags or the post has no tags.                                           *)
(***************************************************************************)
C10_AnyReferenceTag ==
    (satisfied # NotCalled /\ specs[1].kind = "PostTagsSpecification") =>
        /\ satisfied \in {"True", "False"}
        /\ (satisfied = "True") <=>
              (Range(specs[1].reference_tags) \cap Range(lists[candidate.tags]) # {})

\* Satisfied although the first reference tag is not among the post's tags.
C10_Witness ==
    /\ satisfied = "True"
    /\ specs[1].kind = "PostTagsSpecification"
    /\ Len(specs[1].reference_tags) = 2
    /\ specs[1].reference_tags[1] \notin Range(lists[candidate.tags])

\* Not satisfied: no reference tags for a post with tags, or a post without
\* tags.
C10_WitnessEmpty ==
    /\ satisfied = "False"
    /\ specs[1].kind = "PostTagsSpecification"
    /\ specs[1].reference_tags = <<>>
    /\ lists[candidate.tags] # <<>>

(***************************************************************************)
(* SpecEval: concurrent callers evaluate one shared specification tree     *)
(* against one shared Post, without locking.  A caller's evaluation is the *)
(* interpreter's call stack: a frame for every is_satisfied_by call that   *)
(* has not returned; every step of a caller is one call or one return, and *)
(* the steps of the callers interleave in any order.                       *)
(***************************************************************************)
\* The tree Or(And(category, published), Not(tags)) over three leaves.
OrOfAndTree(c, f, t, r) ==
    <<PostCategorySpecification(c), PostPublishedAtSpecification(f, t),
      PostTagsSpecification(r), AndSpecification(1, 2), NotSpecification(3),
      OrSpecification(4, 5)>>

\* The tree And(Or(published, category), Not(Not(tags))).
AndOfOrTree(c, f, t, r) ==
    <<PostPublishedAtSpecification(f, t), PostCategorySpecification(c),
      PostTagsSpecification(r), OrSpecification(1, 2), NotSpecification(3),
      NotSpecification(5), AndSpecification(4, 6)>>

EvalTrees ==
    {OrOfAndTree("IT", f, t, r) : f \in BuildDateTimes, t \in BuildDateTimes, r \in BuildRefTags}
    \cup {AndOfOrTree("IT", f, t, r) : f \in BuildDateTimes, t \in BuildDateTimes, r \in BuildRefTags}

InitEval ==
    /\ specs \in EvalTrees
    /\ lists \in {<<SampleLists[i]>> : i \in DOMAIN SampleLists}
    /\ candidate \in {Post("uuid1", c, d, "title", "content", 1, 0, 0) :
                         c \in {"IT", "SPORT"}, d \in DateTimes}
    /\ objects = <<>>
    /\ callers = NoCallers
    /\ filters = NoReturn
    /\ satisfied = NotCalled
    /\ ctor_tags = NoReturn
    /\ read = NoReturn
    /\ equal = NoReturn

\* The specification a caller evaluates: the whole tree.
Root == Len(specs)

Frame(n) == [node |-> n, pc |-> "call"]

Top(c) == callers[c].stack[Len(callers[c].stack)]

Pop(stack) == SubSeq(stack, 1, Len(stack) - 1)

\* The frame on top waits at `pc` for the call of the child n to return.
PushCall(c, pc, n) ==
    [callers EXCEPT ![c].stack =
                        Append([@ EXCEPT ![Len(@)].pc = pc], Frame(n)),
                    ![c].visits = @ + 1]

\* The frame on top returns the outcome.
PopReturn(c, outcome) ==
    [callers EXCEPT ![c].stack = Pop(@), ![c].ret = outcome]

Running(c) == callers[c].status = "running" /\ callers[c].stack # <<>>

\* spec.is_satisfied_by(candidate) is called.
Call(c) ==
    /\ callers[c].status = "idle"
    /\ callers' = [callers EXCEPT ![c].status = "running",
                                  ![c].stack = <<Frame(Root)>>,
                                  ![c].visits = 1]
    /\ UNCHANGED <<specs, lists, objects, candidate, filters, satisfied, ctor_tags, read, equal>>

\* A leaf's is_satisfied_by runs and returns.
EvalLeaf(c) ==
    /\ Running(c)
    /\ IsLeaf(specs[Top(c).node])
    /\ LET done == Leaf_is_satisfied_by(specs[Top(c).node], lists, candidate)
       IN  /\ callers' = PopReturn(c, done.outcome)
           /\ lists' = done.heap
    /\ UNCHANGED <<specs, objects, candidate, filters, satisfied, ctor_tags, read, equal>>

\* AndSpecification.is_satisfied_by: the left child, then the right child
\* when the left returned True.
EvalAnd(c) ==
    /\ Running(c)
    /\ specs[Top(c).node].kind = "AndSpecification"
    /\ LET self == specs[Top(c).node]
       IN  callers' =
               CASE Top(c).pc = "call" -> PushCall(c, "left", self.inner_left_spec)
                 [] Top(c).pc = "left" /\ callers[c].ret = "True" ->
                      PushCall(c, "right", self.inner_right_spec)
                 [] OTHER -> PopReturn(c, callers[c].ret)
    /\ UNCHANGED <<specs, lists, objects, candidate, filters, satisfied, ctor_tags, read, equal>>

\* OrSpecification.is_satisfied_by: the left child, then the right child
\* when the left returned False.
EvalOr(c) ==
    /\ Running(c)
    /\ specs[Top(c).node].kind = "OrSpecification"
    /\ LET self == specs[Top(c).node]
       IN  callers' =
               CASE Top(c).pc = "call" -> PushCall(c, "left", self.inner_left_spec)
                 [] Top(c).pc = "left" /\ callers[c].ret = "False" ->
                      PushCall(c, "right", self.inner_right_spec)
                 [] OTHER -> PopReturn(c, callers[c].ret)
    /\ UNCHANGED <<specs, lists, objects, candidate, filters, satisfied, ctor_tags, read, equal>>

\* NotSpecification.is_satisfied_by: the child, then not.
EvalNot(c) ==
    /\ Running(c)
    /\ specs[Top(c).node].kind = "NotSpecification"
    /\ LET self == specs[Top(c).node]
       IN  callers' =
               CASE Top(c).pc = "call" -> PushCall(c, "inner", self.inner_spec)
                 [] OTHER -> PopReturn(c, py_not(callers[c].ret))
    /\ UNCHANGED <<specs, lists, objects, candidate, filters, satisfied, ctor_tags, read, equal>>

\* The outermost call has returned (or raised) to the caller.
Return(c) ==
    /\ callers[c].status = "running"
    /\ callers[c].stack = <<>>
    /\ callers' = [callers EXCEPT ![c].status = "done", ![c].result = callers[c].ret]
    /\ UNCHANGED <<specs, lists, objects, candidate, filters, satisfied, ctor_tags, read, equal>>

NextEval ==
    \E c \in Callers :
        \/ Call(c)
        \/ EvalLeaf(c)
        \/ EvalAnd(c)
        \/ EvalOr(c)
        \/ EvalNot(c)
        \/ Return(c)

SpecEval == InitEval /\ [][NextEval]_vars

(***************************************************************************)
(* C8.  Evaluation is safe under concurrent use without locking: no step   *)
(* of any caller writes the tree, the candidate or the candidate's list of *)
(* tags, and every caller obtains the outcome it would obtain evaluating   *)
(* alone.                                                                  *)
(***************************************************************************)
C8_NoWrite == specs' = specs /\ candidate' = candidate /\ lists' = lists

C8_SameAsAlone ==
    \A c \in Callers :
        callers[c].status = "done" =>
            callers[c].result = is_satisfied_by(specs, Root, lists, candidate)

C8_ConcurrentEvaluation == [](C8_SameAsAlone) /\ [][C8_NoWrite]_vars

\* Two callers are inside the tree at once, at different nodes, after a
\* leaf that reads the candidate's tags has returned to one of them.
C8_Witness ==
    \E c \in Callers, d \in Callers :
        /\ c # d
        /\ Len(callers[c].stack) >= 2
        /\ Len(callers[d].stack) >= 2
        /\ Top(c).node # Top(d).node
        /\ callers[c].ret \in {"True", "False"}
        /\ \E n \in DOMAIN specs :
              /\ specs[n].kind = "PostTagsSpecification"
              /\ specs[n].reference_tags # <<>>
              /\ Top(d).node = n

\* A caller has its result while another is still inside the tree.
C8_WitnessDone ==
    \E c \in Callers, d \in Callers :
        /\ callers[c].status = "done"
        /\ callers[c].result \in {"True", "False"}
        /\ Len(callers[d].stack) >= 2

(***************************************************************************)
(* C9.  Evaluation is a total boolean function: for every tree of leaf     *)
(* specifications and And/Or/Not and every Post, is_satisfied_by ends      *)
(* after visiting each node at most once and returns true or false, never  *)
(* an error.                                                               *)
(***************************************************************************)
C9_TotalBoolean ==
    \A c \in Callers :
        /\ callers[c].visits <= Len(specs)
        /\ callers[c].status = "done" => callers[c].result \in {"True", "False"}

(***************************************************************************)
(* SpecEq: a caller constructs Posts and other values and compares a Post  *)
(* with any of them.                                                       *)
(***************************************************************************)
BasePost == Post("uuid1", "IT", [instant |-> 1, aware |-> TRUE], "title", "content", 1, 0, 0)

\* The base Post, and Posts that differ from it in slots other than the
\* identifier; every such slot differs in one of them.
PostVariants ==
    {BasePost,
     [BasePost EXCEPT !.category = "SPORT",
                      !.published_at = [instant |-> 1, aware |-> FALSE]],
     [BasePost EXCEPT !.title = "other title", !.content = "other content"],
     [BasePost EXCEPT !.tags = 2],
     [BasePost EXCEPT !.likes = 1, !.dislikes = 1]}

\* Values that are not Posts: a UUID and None.
NonPosts == {[class |-> "UUID", value |-> u] : u \in UUIDs} \cup {[class |-> "NoneType"]}

IsPost(heap, ref) == heap[ref].class = "Post"

InitEq ==
    /\ specs = <<>>
    /\ lists = SampleLists
    /\ objects = <<>>
    /\ candidate = NoPost
    /\ callers = NoCallers
    /\ filters = NoReturn
    /\ satisfied = NotCalled
    /\ ctor_tags = NoReturn
    /\ read = NoReturn
    /\ equal = NoReturn

NewPost ==
    /\ Len(objects) < MaxObjects
    /\ \E v \in PostVariants, post_id \in UUIDs :
          objects' = Append(objects,
                            Post(post_id, v.category, v.published_at, v.title,
                                 v.content, v.tags, v.likes, v.dislikes))
    /\ UNCHANGED <<specs, lists, candidate, callers, filters, satisfied, ctor_tags, read, equal>>

NewNonPost ==
    /\ Len(objects) < MaxObjects
    /\ \E v \in NonPosts : objects' = Append(objects, v)
    /\ UNCHANGED <<specs, lists, candidate, callers, filters, satisfied, ctor_tags, read, equal>>

\* self == other, for a Post self.
Compare ==
    /\ \E self \in DOMAIN objects, other \in DOMAIN objects :
          /\ IsPost(objects, self)
          /\ equal' = Returned([self |-> self, other |-> other,
                                result |-> Post_eq(objects, self, other)])
    /\ UNCHANGED <<specs, lists, objects, candidate, callers, filters, satisfied, ctor_tags, read>>

NextEq == NewPost \/ NewNonPost \/ Compare

SpecEq == InitEq /\ [][NextEq]_vars

Eq(self, other) == Post_eq(objects, self, other)

(***************************************************************************)
(* C5.  For any two Posts p and q, p == q exactly when their post_id are   *)
(* equal, whatever their other slots hold; so the equality of Posts is     *)
(* reflexive, symmetric and transitive; and a Post is never equal to a     *)
(* value that is not a Post.                                               *)
(***************************************************************************)
C5_EqualityByIdentifier ==
    LET posts == {p \in DOMAIN objects : IsPost(objects, p)}
    IN  /\ equal # NoReturn =>
              LET self == equal[1].self
                  other == equal[1].other
              IN  equal[1].result <=>
                      (/\ IsPost(objects, other)
                       /\ objects[self].post_id = objects[other].post_id)
        /\ \A p \in posts : \A q \in posts :
              Eq(p, q) <=> (objects[p].post_id = objects[q].post_id)
        /\ \A p \in posts : \A v \in DOMAIN objects \ posts : ~Eq(p, v)
        /\ \A p \in posts : Eq(p, p)
        /\ \A p \in posts : \A q \in posts : Eq(p, q) => Eq(q, p)
        /\ \A p \in posts : \A q \in posts : \A r \in posts :
              (Eq(p, q) /\ Eq(q, r)) => Eq(p, r)

\* Two Post objects with the same identifier and different other slots have
\* been compared and found equal, next to a UUID that is the identifier.
C5_Witness ==
    /\ equal # NoReturn
    /\ equal[1].result
    /\ equal[1].self # equal[1].other
    /\ objects[equal[1].self] # objects[equal[1].other]
    /\ \E v \in DOMAIN objects :
          /\ ~IsPost(objects, v)
          /\ objects[v] = [class |-> "UUID", value |-> objects[equal[1].self].post_id]

\* Two Posts that differ in the identifier alone have been compared and
\* found unequal.
C5_WitnessUnequal ==
    /\ equal # NoReturn
    /\ ~equal[1].result
    /\ IsPost(objects, equal[1].other)
    /\ [objects[equal[1].self] EXCEPT !.post_id = "uuid1"] =
          [objects[equal[1].other] EXCEPT !.post_id = "uuid1"]

(***************************************************************************)
(* SpecPost: a caller makes a list of tags, constructs one Post with it,   *)
(* reads post.tags, and changes the lists it holds: the list it handed to  *)
(* the constructor and the lists post.tags returned.                       *)
(***************************************************************************)
InitPost ==
    /\ specs = <<>>
    /\ lists = <<>>
    /\ objects = <<>>
    /\ candidate = NoPost
    /\ callers = NoCallers
    /\ filters = NoReturn
    /\ satisfied = NotCalled
    /\ ctor_tags = NoReturn
    /\ read = NoReturn
    /\ equal = NoReturn

\* tags = [...]: a new list object.
NewList ==
    /\ Len(lists) < MaxLists
    /\ \E tags \in SeqsUpTo(TagNames, MaxTags) : lists' = Append(lists, tags)
    /\ UNCHANGED <<specs, objects, candidate, callers, filters, satisfied, ctor_tags, read, equal>>

\* list.append(tag).
ListAppend ==
    /\ \E l \in DOMAIN lists, tag \in TagNames :
          /\ Len(lists[l]) < MaxTags
          /\ lists' = [lists EXCEPT ![l] = Append(@, tag)]
    /\ UNCHANGED <<specs, objects, candidate, callers, filters, satisfied, ctor_tags, read, equal>>

\* list.pop(i).
ListPop ==
    /\ \E l \in DOMAIN lists :
          \E i \in DOMAIN lists[l] :
              lists' = [lists EXCEPT ![l] = SubSeq(@, 1, i - 1) \o SubSeq(@, i + 1, Len(@))]
    /\ UNCHANGED <<specs, objects, candidate, callers, filters, satisfied, ctor_tags, read, equal>>

\* list.clear().
ListClear ==
    /\ \E l \in DOMAIN lists :
          /\ lists[l] # <<>>
          /\ lists' = [lists EXCEPT ![l] = <<>>]
    /\ UNCHANGED <<specs, objects, candidate, callers, filters, satisfied, ctor_tags, read, equal>>

\* Post(..., tags, ...) with a list object the caller holds.
ConstructPost ==
    /\ objects = <<>>
    /\ \E l \in DOMAIN lists :
          /\ objects' = <<Post("uuid1", "IT", [instant |-> 1, aware |-> TRUE],
                              "title", "content", l, 0, 0)>>
          /\ ctor_tags' = Returned(lists[l])
    /\ UNCHANGED <<specs, lists, candidate, callers, filters, satisfied, read, equal>>

\* post.tags, the caller keeping the list it returns.
ReadTags ==
    /\ objects # <<>>
    /\ Len(lists) < MaxLists
    /\ LET tags == Post_tags(lists, objects[1])
       IN  /\ lists' = Append(tags.heap, tags.value)
           /\ read' = Returned(tags.value)
    /\ UNCHANGED <<specs, objects, candidate, callers, filters, satisfied, ctor_tags, equal>>

\* post.tags, the caller dropping the list it returns.
PeekTags ==
    /\ objects # <<>>
    /\ LET tags == Post_tags(lists, objects[1])
       IN  /\ lists' = tags.heap
           /\ read' = Returned(tags.value)
    /\ UNCHANGED <<specs, objects, candidate, callers, filters, satisfied, ctor_tags, equal>>

NextPost ==
    \/ NewList
    \/ ListAppend
    \/ ListPop
    \/ ListClear
    \/ ConstructPost
    \/ ReadTags
    \/ PeekTags

SpecPost == InitPost /\ [][NextPost]_vars

(***************************************************************************)
(* C6.  A Post's tags are immutable after construction: whatever the       *)
(* caller does with the lists post.tags returned and with the list it      *)
(* handed to the constructor, a read of post.tags returns the tags the     *)
(* post was constructed with.                                              *)
(***************************************************************************)
C6_TagsImmutable == read # NoReturn => read[1] = ctor_tags[1]

(***************************************************************************)
(* C11.  PostCategorySpecification(c) is satisfied by a post p exactly     *)
(* when p.category equals c, whatever the other slots of the post hold.    *)
(***************************************************************************)
C11_CategoryEquals ==
    (satisfied # NotCalled /\ specs[1].kind = "PostCategorySpecification") =>
        /\ satisfied \in {"True", "False"}
        /\ (satisfied = "True") <=> (candidate.category = specs[1].reference_category)

\* Satisfied by a post of the reference category whose other slots are not
\* the ones of the posts that are not satisfied.
C11_Witness ==
    /\ satisfied = "True"
    /\ specs[1].kind = "PostCategorySpecification"
    /\ candidate.category = specs[1].reference_category
    /\ candidate.post_id = "uuid2"
    /\ lists[candidate.tags] # <<>>

\* The reference category IT against a post of the category BUSINESS.
C11_WitnessOther ==
    /\ satisfied = "False"
    /\ specs[1] = PostCategorySpecification("IT")
    /\ candidate.category = "BUSINESS"

(***************************************************************************)
(* C12.  PostPublishedAtSpecification(published_from, published_to) is     *)
(* satisfied by a post p exactly when published_from <= p.published_at <=  *)
(* published_to, both bounds included; so no post satisfies it when        *)
(* published_from > published_to, and exactly the posts published at that  *)
(* instant satisfy it when published_from == published_to.                 *)
(*                                                                         *)
(* a <= b is true of two datetimes when both are naive or both are aware   *)
(* and a is not later than b; a > b likewise.                              *)
(***************************************************************************)
NotLater(a, b) == a.aware = b.aware /\ a.instant <= b.instant

Later(a, b) == a.aware = b.aware /\ a.instant > b.instant

C12_PublishedWithin ==
    (satisfied # NotCalled /\ specs[1].kind = "PostPublishedAtSpecification") =>
        LET from == specs[1].published_from
            to == specs[1].published_to
            at == candidate.published_at
        IN  /\ (satisfied = "True") <=> (NotLater(from, at) /\ NotLater(at, to))
            /\ Later(from, to) => satisfied # "True"
            /\ from = to => ((satisfied = "True") <=> (at = from))
            /\ (from.aware = at.aware /\ at.aware = to.aware) =>
                  satisfied \in {"True", "False"}

\* Satisfied by a post published at the instant that is both bounds.
C12_Witness ==
    /\ satisfied = "True"
    /\ specs[1].kind = "PostPublishedAtSpecification"
    /\ specs[1].published_from = specs[1].published_to
    /\ candidate.published_at = specs[1].published_to

\* Not satisfied: the lower bound is later than the upper bound and the
\* post is published at one of them.
C12_WitnessEmptyRange ==
    /\ satisfied = "False"
    /\ specs[1].kind = "PostPublishedAtSpecification"
    /\ Later(specs[1].published_from, specs[1].published_to)
    /\ candidate.published_at = specs[1].published_to

\* Satisfied strictly inside the range needs three instants; on the upper
\* bound of a range of two instants.
C12_WitnessUpperBound ==
    /\ satisfied = "True"
    /\ specs[1].kind = "PostPublishedAtSpecification"
    /\ Later(specs[1].published_to, specs[1].published_from)
    /\ candidate.published_at = specs[1].published_to

====
